---- MODULE Spec2Model ----
(***************************************************************************)
(* Model of the dependency-graph tool: GraphBuilder (graph_builder.py),    *)
(* the dependency source it calls (dependency_fetcher.py) and the D2       *)
(* description produced by Visualizer.generate_d2_code (visualizer.py).    *)
(*                                                                         *)
(* A package identifier is a sequence of one-character strings, so that    *)
(* str.lower(), the substring test of the filter and the quoting of D2     *)
(* identifiers are computed rather than assumed.                           *)
(*                                                                         *)
(* The recursion of GraphBuilder._dfs is an explicit stack of frames; one  *)
(* action per block of the method (the checks at entry, the body of the    *)
(* try, one iteration of the for loop, the except clause, the finally      *)
(* clause).                                                                *)
(***************************************************************************)
EXTENDS Integers, Sequences, FiniteSets

\* ------------------------------------------------------------------ bounds

\* Longest dependency list the dependency source returns for one package.
MaxDeps == 2

\* Number of build_graph calls made on one GraphBuilder.
MaxBuilds == 2

\* Dependency names the whole dependency source lists, over all packages.
MaxEdges == 3

\* Deepest nesting of _dfs calls the model follows.
MaxDepth == 4

\* ------------------------------------------------------------ identifiers

PkgA == <<"A">>
PkgB == <<"B">>
PkgC == <<"C", "-", "b">>

Packages == {PkgA, PkgB, PkgC}

\* The values of filter_substring handed to the constructor.
FilterInputs == {<<>>, <<"c">>, <<"B">>}

\* str.lower() on one character
LowerChar(c) ==
    CASE c = "A" -> "a"
      [] c = "B" -> "b"
      [] c = "C" -> "c"
      [] OTHER -> c

\* str.lower()
Lower(s) == [i \in 1..Len(s) |-> LowerChar(s[i])]

\* the Python test "sub in s" on strings
Contains(sub, s) ==
    \E i \in 1..(Len(s) - Len(sub) + 1) : SubSeq(s, i, i + Len(sub) - 1) = sub

\* GraphBuilder.__init__: the stored filter_substring
InitFilter(raw) == IF raw # <<>> THEN Lower(raw) ELSE <<>>

\* GraphBuilder.should_filter_package
should_filter_package(flt, package_name) ==
    IF flt = <<>> THEN FALSE ELSE Contains(flt, Lower(package_name))

\* ------------------------------------------------------ dependency source

\* The exception get_direct_dependencies raises when a fetch fails (the
\* FileNotFoundError of a missing stub file is caught by the same handler).
FetchErrors == {"RuntimeError"}

\* The classes "except Exception" catches.
ExceptionClasses == {"RuntimeError", "FileNotFoundError", "Exception"}

RECURSIVE SeqsUpTo(_, _)
SeqsUpTo(S, n) ==
    IF n = 0 THEN {<<>>}
    ELSE LET shorter == SeqsUpTo(S, n - 1)
         IN shorter \cup {Append(s, x) : s \in {t \in shorter : Len(t) = n - 1}, x \in S}

DepLists == SeqsUpTo(Packages, MaxDeps)

\* What get_direct_dependencies does for one package: it returns a list of
\* dependency names, or raises.
Returns(deps) == [raises |-> "none", deps |-> deps]
Raises(e) == [raises |-> e, deps |-> <<>>]

RECURSIVE SumLen(_, _)
SumLen(src, S) ==
    IF S = {} THEN 0
    ELSE LET p == CHOOSE q \in S : TRUE
         IN Len(src[p].deps) + SumLen(src, S \ {p})

\* A dependency source: each package has a dependency list or fails.
Sources ==
    {src \in [Packages -> {Returns(d) : d \in DepLists} \cup {Raises(e) : e \in FetchErrors}] :
        SumLen(src, Packages) <= MaxEdges}

\* ------------------------------------------------------------------- dict

\* A dict is the sequence of its items in insertion order.
DictKeys(d) == {d[i].pkg : i \in DOMAIN d}

DictGet(d, k) == d[CHOOSE i \in DOMAIN d : d[i].pkg = k].deps

\* d[k] = v
DictSet(d, k, v) ==
    IF k \in DictKeys(d)
    THEN [i \in DOMAIN d |-> IF d[i].pkg = k THEN [pkg |-> k, deps |-> v] ELSE d[i]]
    ELSE Append(d, [pkg |-> k, deps |-> v])

\* the orders in which iterating over a set can yield its elements
Orderings(S) ==
    {s \in [1..Cardinality(S) -> S] : \A i, j \in 1..Cardinality(S) : s[i] = s[j] => i = j}

\* ------------------------------------------------------------------ state

VARIABLES
    source,            \* the dependency source behind dependency_fetcher
    filter_substring,  \* GraphBuilder.filter_substring
    root,              \* the package name the caller builds the graph of
    graph,             \* GraphBuilder.graph
    visited,           \* GraphBuilder.visited
    current_path,      \* GraphBuilder.current_path
    cycles,            \* GraphBuilder.cycles
    stack,             \* the _dfs calls in progress, innermost last
    pc,                \* where the caller is: "idle", "building", "done", "raised"
    fetches,           \* calls of get_direct_dependencies in this build, per package
    built,             \* the graphs the build_graph calls have returned
    ret                \* what the last query on the built graph returned

vars == <<source, filter_substring, root, graph, visited, current_path, cycles,
          stack, pc, fetches, built, ret>>

NoRet == [op |-> "none", arg |-> <<>>, value |-> <<>>]

\* A _dfs call that has passed the checks at entry and is in its try statement.
Frame(p) == [pkg |-> p, at |-> "try", deps |-> <<>>, i |-> 1, exc |-> "none"]

Top == stack[Len(stack)]

SetTop(f) == [stack EXCEPT ![Len(stack)] = f]

Pop == SubSeq(stack, 1, Len(stack) - 1)

Init ==
    /\ source \in Sources
    /\ filter_substring \in {InitFilter(raw) : raw \in FilterInputs}
    /\ root \in Packages
    /\ graph = <<>>
    /\ visited = {}
    /\ current_path = {}
    /\ cycles = <<>>
    /\ stack = <<>>
    /\ pc = "idle"
    /\ fetches = [p \in Packages |-> 0]
    /\ built = <<>>
    /\ ret = NoRet

\* ------------------------------------------------------------------- _dfs

\* OnPath without the test: no back-edge is ever found
OnPathNever(package_name, path) == FALSE

\* OnPath with one set for both tests: a package already expanded counts as
\* being on the current path
OnPathOrVisited(package_name, path) == package_name \in path \cup visited

\* the test that finds a back-edge
OnPath(package_name, path) == package_name \in path

\* AlreadyVisited without the test: a package is expanded whenever reached
AlreadyVisitedNever(package_name, seen) == FALSE

\* the test that skips a package already expanded
AlreadyVisited(package_name, seen) == package_name \in seen

\* CycleRecords recording the repeated package alone
CycleRecordsRepeatOnly(path, package_name) == {<<package_name>>}

\* the cycle records list(current_path) + [package_name] can be: a set is
\* iterated in an order the program does not choose
CycleRecords(path, package_name) == {Append(order, package_name) : order \in Orderings(path)}

\* A call _dfs(package_name) made with the frames stk in progress, up to the
\* try statement: a filtered package, one on the current path and one already
\* visited return at once; otherwise the package joins the current path.
DfsCall(package_name, stk, path, seen, cyc) ==
    IF should_filter_package(filter_substring, package_name)
    THEN /\ stack' = stk
         /\ current_path' = path
         /\ cycles' = cyc
    ELSE IF OnPath(package_name, path)
    THEN /\ \E cycle \in CycleRecords(path, package_name) : cycles' = Append(cyc, cycle)
         /\ stack' = stk
         /\ current_path' = path
    ELSE IF AlreadyVisited(package_name, seen)
    THEN /\ stack' = stk
         /\ current_path' = path
         /\ cycles' = cyc
    ELSE /\ current_path' = path \cup {package_name}
         /\ stack' = Append(stk, Frame(package_name))
         /\ cycles' = cyc

\* FilterDeps storing the fetched list as it is
FilterDepsKeepsAll(flt, dependencies) == dependencies

\* the list comprehension that drops the filtered dependencies
RECURSIVE FilterDeps(_, _)
FilterDeps(flt, dependencies) ==
    IF dependencies = <<>> THEN <<>>
    ELSE IF ~should_filter_package(flt, Head(dependencies))
         THEN <<Head(dependencies)>> \o FilterDeps(flt, Tail(dependencies))
         ELSE FilterDeps(flt, Tail(dependencies))

\* _dfs, the try block up to the for loop: the fetch, which may raise, the
\* filtering of its result and the store into the graph.
DfsTry ==
    /\ pc = "building"
    /\ stack # <<>>
    /\ Top.at = "try"
    /\ LET p == Top.pkg IN
       /\ fetches' = [fetches EXCEPT ![p] = @ + 1]
       /\ IF source[p].raises # "none"
          THEN /\ stack' = SetTop([Top EXCEPT !.at = "except", !.exc = source[p].raises])
               /\ UNCHANGED graph
          ELSE LET filtered_deps == FilterDeps(filter_substring, source[p].deps) IN
               /\ graph' = DictSet(graph, p, filtered_deps)
               /\ stack' = SetTop([Top EXCEPT !.at = "for", !.deps = filtered_deps,
                                              !.i = 1])
    /\ UNCHANGED <<source, filter_substring, root, visited, current_path, cycles,
                   pc, built, ret>>

\* NextIndex stepping over a dependency
NextIndexSkips(i) == i + 2

\* the position of the for loop after the iteration at position i
NextIndex(i) == i + 1

\* _dfs, one iteration of the for loop: the recursive call on the next
\* dependency; past the last one the try block ends normally.
DfsFor ==
    /\ pc = "building"
    /\ stack # <<>>
    /\ Top.at = "for"
    /\ IF Top.i <= Len(Top.deps)
       THEN /\ Len(stack) < MaxDepth
            /\ DfsCall(Top.deps[Top.i], SetTop([Top EXCEPT !.i = NextIndex(@)]),
                       current_path, visited, cycles)
       ELSE /\ stack' = SetTop([Top EXCEPT !.at = "finally"])
            /\ UNCHANGED <<current_path, cycles>>
    /\ UNCHANGED <<source, filter_substring, root, graph, visited, pc, fetches,
                   built, ret>>

\* Catches for a handler that names a class the fetch does not raise
CatchesKeyError(e) == e \in {"KeyError"}

\* "except Exception": the exception classes the handler catches
Catches(e) == e \in ExceptionClasses

\* _dfs, the except clause: a caught exception leaves an empty entry.
DfsExcept ==
    /\ pc = "building"
    /\ stack # <<>>
    /\ Top.at = "except"
    /\ IF Catches(Top.exc)
       THEN /\ graph' = DictSet(graph, Top.pkg, <<>>)
            /\ stack' = SetTop([Top EXCEPT !.at = "finally", !.exc = "none"])
       ELSE /\ stack' = SetTop([Top EXCEPT !.at = "finally"])
            /\ UNCHANGED graph
    /\ UNCHANGED <<source, filter_substring, root, visited, current_path, cycles,
                   pc, fetches, built, ret>>

\* _dfs, the finally clause: the package leaves the current path and is
\* marked visited; an exception nobody caught goes on to the caller.
DfsFinally ==
    /\ pc = "building"
    /\ stack # <<>>
    /\ Top.at = "finally"
    /\ current_path' = current_path \ {Top.pkg}
    /\ visited' = visited \cup {Top.pkg}
    /\ IF Top.exc = "none"
       THEN /\ stack' = Pop
            /\ pc' = pc
       ELSE IF Len(stack) > 1
       THEN /\ stack' = [Pop EXCEPT ![Len(stack) - 1] =
                            [@ EXCEPT !.at = "except", !.exc = Top.exc]]
            /\ pc' = pc
       ELSE /\ stack' = Pop
            /\ pc' = "raised"
    /\ UNCHANGED <<source, filter_substring, root, graph, cycles, fetches, built, ret>>

\* ------------------------------------------------------------ build_graph

\* ResetVisited leaving the visited set of the previous build
ResetVisitedKeeps(seen) == seen

\* build_graph sets the four structures to these before the traversal
ResetGraph(g) == <<>>
ResetVisited(seen) == {}
ResetPath(path) == {}
ResetCycles(cyc) == <<>>

\* build_graph, up to the try statement of _dfs(package_name): the four
\* structures are reset and the traversal starts at the root.
BuildGraph ==
    /\ pc \in {"idle", "done"}
    /\ Len(built) < MaxBuilds
    /\ graph' = ResetGraph(graph)
    /\ visited' = ResetVisited(visited)
    /\ DfsCall(root, <<>>, ResetPath(current_path), ResetVisited(visited),
               ResetCycles(cycles))
    /\ pc' = "building"
    /\ fetches' = [p \in Packages |-> 0]
    /\ ret' = NoRet
    /\ UNCHANGED <<source, filter_substring, root, built>>

\* build_graph: _dfs has returned, the graph is returned to the caller.
BuildReturn ==
    /\ pc = "building"
    /\ stack = <<>>
    /\ pc' = "done"
    /\ built' = Append(built, graph)
    /\ UNCHANGED <<source, filter_substring, root, graph, visited, current_path,
                   cycles, stack, fetches, ret>>

\* ----------------------------------------------- get_reverse_dependencies

\* ReverseDeps without the membership test: every key is returned
ReverseDepsAllKeys(items, package_name) == [i \in DOMAIN items |-> items[i].pkg]

\* the loop over self.graph.items(), in the dict's order
RECURSIVE ReverseDeps(_, _)
ReverseDeps(items, package_name) ==
    IF items = <<>> THEN <<>>
    ELSE IF \E k \in DOMAIN Head(items).deps : Head(items).deps[k] = package_name
         THEN <<Head(items).pkg>> \o ReverseDeps(Tail(items), package_name)
         ELSE ReverseDeps(Tail(items), package_name)

GetReverseDependencies ==
    /\ pc = "done"
    /\ \E package_name \in Packages :
         ret' = [op |-> "get_reverse_dependencies", arg |-> package_name,
                 value |-> ReverseDeps(graph, package_name)]
    /\ UNCHANGED <<source, filter_substring, root, graph, visited, current_path,
                   cycles, stack, pc, fetches, built>>

\* ------------------------------------------------------- generate_d2_code

\* the characters that make _escape_d2_identifier quote an identifier
D2Special == {"-", ".", " ", ":", "/", "\\"}

\* Visualizer._escape_d2_identifier
escape_d2_identifier(identifier) ==
    IF \E k \in DOMAIN identifier : identifier[k] \in D2Special
    THEN <<"\"">> \o identifier \o <<"\"">>
    ELSE identifier

\* the f-string '{pkg_escaped} -> {dep_escaped}'
RelationLine(package, dep) ==
    escape_d2_identifier(package) \o <<" ", "-", ">", " ">> \o escape_d2_identifier(dep)

\* the inner loop of generate_d2_code: one line per entry of deps
RECURSIVE LinesOf(_, _)
LinesOf(package, deps) ==
    IF deps = <<>> THEN <<>>
    ELSE <<RelationLine(package, Head(deps))>> \o LinesOf(package, Tail(deps))

\* the outer loop of generate_d2_code, over self.graph.items()
RECURSIVE RelationLines(_)
RelationLines(items) ==
    IF items = <<>> THEN <<>>
    ELSE LinesOf(Head(items).pkg, Head(items).deps) \o RelationLines(Tail(items))

\* '\n'.join(lines)
RECURSIVE JoinLines(_)
JoinLines(lines) ==
    IF lines = <<>> THEN <<>>
    ELSE IF Len(lines) = 1 THEN lines[1]
    ELSE lines[1] \o <<"\n">> \o JoinLines(Tail(lines))

\* Visualizer.generate_d2_code
generate_d2_code(g) ==
    JoinLines(<< <<"// Dependency graph visualization">>, <<>> >> \o RelationLines(g))

GenerateD2Code ==
    /\ pc = "done"
    /\ ret' = [op |-> "generate_d2_code", arg |-> <<>>, value |-> generate_d2_code(graph)]
    /\ UNCHANGED <<source, filter_substring, root, graph, visited, current_path,
                   cycles, stack, pc, fetches, built>>

\* ---------------------------------------------------------- specification

DfsStep == DfsTry \/ DfsFor \/ DfsExcept \/ DfsFinally \/ BuildReturn

Next ==
    \/ BuildGraph
    \/ DfsTry
    \/ DfsFor
    \/ DfsExcept
    \/ DfsFinally
    \/ BuildReturn
    \/ GetReverseDependencies
    \/ GenerateD2Code

Spec == Init /\ [][Next]_vars

\* The traversal is ordinary sequential code: a step that can be taken is taken.
FairSpec == Spec /\ WF_vars(DfsStep)

\* ------------------------------------------------------------------- main

\* A run of main() starts before any fetch: pc is "main"; it ends at "exit0"
\* (main returns) or at "exit1" (sys.exit(1)).
MainInit ==
    /\ source \in Sources
    /\ filter_substring \in {InitFilter(raw) : raw \in FilterInputs}
    /\ root \in Packages
    /\ graph = <<>>
    /\ visited = {}
    /\ current_path = {}
    /\ cycles = <<>>
    /\ stack = <<>>
    /\ pc = "main"
    /\ fetches = [p \in Packages |-> 0]
    /\ built = <<>>
    /\ ret = NoRet

\* Stage2Aborts for a handler that reports the error and goes on
Stage2Reports(e) == FALSE

\* main, stage 2: "except Exception" around the fetch of the root's direct
\* dependencies ends the run with sys.exit(1)
Stage2Aborts(e) == e \in ExceptionClasses

\* main, stage 2: the direct dependencies of the root package are fetched and
\* printed; a failed fetch ends the run, otherwise the GraphBuilder is made.
MainDirectDependencies ==
    /\ pc = "main"
    /\ pc' = IF source[root].raises # "none" /\ Stage2Aborts(source[root].raises)
             THEN "exit1"
             ELSE "idle"
    /\ UNCHANGED <<source, filter_substring, root, graph, visited, current_path,
                   cycles, stack, fetches, built, ret>>

\* main, stage 3: the one build_graph call of a run
MainBuildGraph == pc = "idle" /\ BuildGraph

\* main, after the graph is printed: get_cycles() and the report of the cycles
MainReportCycles ==
    /\ pc = "done"
    /\ ret.op = "none"
    /\ ret' = [op |-> "get_cycles", arg |-> <<>>, value |-> cycles]
    /\ UNCHANGED <<source, filter_substring, root, graph, visited, current_path,
                   cycles, stack, pc, fetches, built>>

\* main, stage 4, when --reverse was given
MainReverseDependencies == ret.op = "get_cycles" /\ GetReverseDependencies

\* main, stage 5: the D2 description of the graph
MainVisualize ==
    /\ ret.op \in {"get_cycles", "get_reverse_dependencies"}
    /\ GenerateD2Code

\* main returns after stage 5; an exception that left build_graph reaches the
\* outer "except Exception", which ends the run with sys.exit(1).
MainExit ==
    /\ \/ pc = "raised"
       \/ pc = "done" /\ ret.op = "generate_d2_code"
    /\ pc' = IF pc = "raised" THEN "exit1" ELSE "exit0"
    /\ UNCHANGED <<source, filter_substring, root, graph, visited, current_path,
                   cycles, stack, fetches, built, ret>>

MainNext ==
    \/ MainDirectDependencies
    \/ MainBuildGraph
    \/ DfsTry
    \/ DfsFor
    \/ DfsExcept
    \/ DfsFinally
    \/ BuildReturn
    \/ MainReportCycles
    \/ MainReverseDependencies
    \/ MainVisualize
    \/ MainExit

\* A run of main(): sequential code, a step that can be taken is taken.
MainSpec == MainInit /\ [][MainNext]_vars /\ WF_vars(MainNext)

\* ----------------------------------------------------- what the claims use

\* the package name matches the active filter: the filter is not empty and
\* occurs in the lower-cased name
Matches(p) ==
    /\ filter_substring # <<>>
    /\ \E i \in 1..Len(p) : \E j \in i..Len(p) : Lower(SubSeq(p, i, j)) = filter_substring

\* the elements of a list
Elems(s) == {s[k] : k \in DOMAIN s}

\* every package a graph names, as a key or in a dependency list
Named(g) == DictKeys(g) \cup UNION {Elems(g[i].deps) : i \in DOMAIN g}

\* there is an edge p -> d the traversal can follow: neither end matches the
\* filter, the fetch of p succeeds and lists d
Edge(p, d) ==
    /\ ~Matches(p)
    /\ ~Matches(d)
    /\ source[p].raises = "none"
    /\ d \in Elems(source[p].deps)

\* the packages reachable from the packages of S along such edges
RECURSIVE Closure(_)
Closure(S) ==
    LET T == S \cup {d \in Packages : \E p \in S : Edge(p, d)}
    IN IF T = S THEN S ELSE Closure(T)

\* the packages reachable from the root on a path no package of which matches
\* the filter
Reachable == IF Matches(root) THEN {} ELSE Closure({root})

\* the entry the graph should hold for an expanded package
ExpectedEntry(p) ==
    IF source[p].raises # "none" THEN <<>>
    ELSE LET Kept(d) == ~Matches(d) IN SelectSeq(source[p].deps, Kept)

\* ----------------------------------------------------------------- claims

\* C1: no package matching the filter is a key of the graph or occurs in a
\* dependency list of it, during the build and in every graph build_graph has
\* returned; when the root itself matches, the returned graph is empty.
C1_NoFilteredPackage ==
    /\ \A p \in Named(graph) : ~Matches(p)
    /\ \A n \in DOMAIN built :
          /\ \A p \in Named(built[n]) : ~Matches(p)
          /\ Matches(root) => built[n] = <<>>

\* a build has returned a non-empty graph although the source lists, for a
\* package of that graph, a dependency that matches the filter
C1_Witness ==
    /\ pc = "done"
    /\ graph # <<>>
    /\ \E p \in DictKeys(graph) : \E d \in Elems(source[p].deps) : Matches(d)

\* C2: every build_graph call returns: a build in progress leads to the
\* state in which build_graph has returned its graph.
C2_BuildTerminates == (pc = "building") ~> (pc = "done")

\* a build has returned although the packages it reached lie on two cycles
C2_Witness ==
    /\ pc = "done"
    /\ Len(cycles) >= 2
    /\ \E p \in Reachable : Edge(p, p)
    /\ \E p, q \in Reachable : p # q /\ Edge(p, q) /\ Edge(q, p)

\* C3: within one build, get_direct_dependencies is called at most once for
\* any package.
C3_FetchedAtMostOnce == \A p \in Packages : fetches[p] <= 1

\* a build has returned in which a package was reached a second time after it
\* had been expanded (a duplicate entry of one list) and another one was
\* reached again while on the current path
C3_Witness ==
    /\ pc = "done"
    /\ cycles # <<>>
    /\ \E i \in DOMAIN graph : \E k, l \in DOMAIN graph[i].deps :
          /\ k < l
          /\ graph[i].deps[k] = graph[i].deps[l]
          /\ graph[i].deps[k] # graph[i].pkg

\* C4: when build_graph has returned, the keys of the graph are exactly the
\* packages reachable from the root on a path no package of which matches
\* the filter, along the edges successful fetches return.
C4_KeysAreReachable == pc = "done" => DictKeys(graph) = Reachable

\* a build has returned a graph, and a package that the source only reaches
\* through a filtered package is no key of it
C4_Witness ==
    /\ pc = "done"
    /\ graph # <<>>
    /\ \E x, y \in Packages :
          /\ Matches(x)
          /\ ~Matches(y)
          /\ x \in Elems(source[root].deps)
          /\ y \in Elems(source[x].deps)
          /\ y \notin DictKeys(graph)

\* C5: a failing fetch does not escape build_graph; a package whose fetch was
\* made has, once its try statement is over, its own entry: the empty list
\* when the fetch raised, otherwise the fetched list without the filtered
\* names, in the order of the source; entries stored earlier keep that value.
C5_FetchFailureIsLocal ==
    /\ pc # "raised"
    /\ \A i \in DOMAIN graph : graph[i].deps = ExpectedEntry(graph[i].pkg)
    /\ \A p \in Packages :
          (fetches[p] >= 1 /\ (pc = "done" \/ p \in visited)) => p \in DictKeys(graph)

\* a build has returned in which the fetch of the root's first dependency
\* raised, and the root's entry and that of a later sibling are in the graph
C5_Witness ==
    /\ pc = "done"
    /\ Len(source[root].deps) = 2
    /\ LET p == source[root].deps[1]
           q == source[root].deps[2]
       IN /\ p # q /\ p # root /\ q # root
          /\ source[p].raises # "none"
          /\ fetches[p] = 1
          /\ p \in DictKeys(graph) /\ DictGet(graph, p) = <<>>
          /\ DictGet(graph, root) = <<p, q>>
          /\ q \in DictKeys(graph) /\ DictGet(graph, q) # <<>>

\* the stub source "A: B", "B: A", built from A without a filter
ScenarioAB ==
    /\ source = [p \in Packages |->
                    IF p = PkgA THEN Returns(<<PkgB>>)
                    ELSE IF p = PkgB THEN Returns(<<PkgA>>)
                    ELSE Returns(<<>>)]
    /\ filter_substring = <<>>
    /\ root = PkgA

\* C6, as claimed: for "A: B", "B: A" the built graph contains A and B, one
\* cycle is recorded that references both, and B's entry does not list A.
C6_BackEdgeTruncatesEntry ==
    (ScenarioAB /\ pc = "done") =>
        /\ {PkgA, PkgB} \subseteq DictKeys(graph)
        /\ Len(cycles) = 1
        /\ {PkgA, PkgB} \subseteq Elems(cycles[1])
        /\ PkgA \notin Elems(DictGet(graph, PkgB))

\* C6, amended: for "A: B", "B: A" the built graph is exactly A -> [B],
\* B -> [A], and one cycle is recorded, which references A and B and ends with
\* the repeated package A: the back-edge ends the traversal at A, and B's
\* entry still lists A.
C6_BackEdgeKeepsEntry ==
    (ScenarioAB /\ pc = "done") =>
        /\ graph = <<[pkg |-> PkgA, deps |-> <<PkgB>>], [pkg |-> PkgB, deps |-> <<PkgA>>]>>
        /\ Len(cycles) = 1
        /\ {PkgA, PkgB} \subseteq Elems(cycles[1])
        /\ cycles[1][Len(cycles[1])] = PkgA

\* the build of "A: B", "B: A" from A has returned
C6_Witness == ScenarioAB /\ pc = "done" /\ built # <<>>

\* the packages the traversal reaches contain a directed cycle
HasCycle == \E p \in Reachable : \E d \in Packages : Edge(p, d) /\ p \in Closure({d})

\* the stub source "A: B C", "B: C", "C:", built from A without a filter
ScenarioDiamond ==
    /\ source = [p \in Packages |->
                    IF p = PkgA THEN Returns(<<PkgB, PkgC>>)
                    ELSE IF p = PkgB THEN Returns(<<PkgC>>)
                    ELSE Returns(<<>>)]
    /\ filter_substring = <<>>
    /\ root = PkgA

\* C7: when build_graph has returned, a cycle is recorded if and only if the
\* packages reached contain a directed cycle; two reached packages that depend
\* on each other are both keys and both in one cycle record; the diamond
\* "A: B C", "B: C", "C:" gives its three entries and no cycle record.
C7_CyclesIffCyclic ==
    pc = "done" =>
        /\ (cycles # <<>>) <=> HasCycle
        /\ \A p, q \in Reachable :
              (p # q /\ Edge(p, q) /\ Edge(q, p)) =>
                  /\ {p, q} \subseteq DictKeys(graph)
                  /\ \E n \in DOMAIN cycles : {p, q} \subseteq Elems(cycles[n])
        /\ ScenarioDiamond =>
              /\ cycles = <<>>
              /\ graph = <<[pkg |-> PkgA, deps |-> <<PkgB, PkgC>>],
                           [pkg |-> PkgB, deps |-> <<PkgC>>],
                           [pkg |-> PkgC, deps |-> <<>>]>>

\* a build has returned whose root leads to two packages that depend on each
\* other, and a cycle is recorded
C7_Witness ==
    /\ pc = "done"
    /\ cycles # <<>>
    /\ \E p, q \in Reachable :
          /\ p # q /\ p # root /\ q # root
          /\ Edge(root, p) /\ Edge(p, q) /\ Edge(q, p)

\* the build of the diamond has returned
C7_WitnessDiamond == ScenarioDiamond /\ pc = "done"

\* C8: the build_graph calls made on one GraphBuilder, with the source, the
\* filter and the root unchanged, all return the same graph.
C8_BuildIsIdempotent == \A m, n \in DOMAIN built : built[m] = built[n]

\* a second build has returned, after a first one that left a graph of
\* several entries, visited packages and a cycle record
C8_Witness ==
    /\ pc = "done"
    /\ Len(built) = 2
    /\ Len(built[1]) >= 2
    /\ HasCycle
    /\ cycles # <<>>

\* C9: get_reverse_dependencies(X) returns the keys of the graph whose
\* dependency list contains X, each once, and nothing else (so the empty list
\* when no key lists X); the call makes no fetch and leaves the graph, the
\* visited set, the current path and the cycle list as they are.
C9_ReverseDependencies ==
    [][(ret' # ret /\ ret'.op = "get_reverse_dependencies") =>
          /\ Elems(ret'.value) =
                {p \in DictKeys(graph) : ret'.arg \in Elems(DictGet(graph, p))}
          /\ \A k, l \in DOMAIN ret'.value : ret'.value[k] = ret'.value[l] => k = l
          /\ UNCHANGED <<graph, visited, current_path, cycles, fetches>>]_vars

\* get_reverse_dependencies has returned a key that lists the package twice,
\* and not every key of the graph
C9_Witness ==
    /\ ret.op = "get_reverse_dependencies"
    /\ Len(ret.value) >= 1
    /\ Len(graph) > Len(ret.value)
    /\ \E i \in DOMAIN graph : graph[i].deps = <<ret.arg, ret.arg>>

\* get_reverse_dependencies has returned the two dependents of the package
\* shared by a diamond
C9_WitnessDiamond ==
    /\ ret.op = "get_reverse_dependencies"
    /\ Len(ret.value) = 2
    /\ Len(graph) = 3

\* text.split('\n')
RECURSIVE SplitLines(_)
SplitLines(text) ==
    IF \A k \in DOMAIN text : text[k] # "\n" THEN <<text>>
    ELSE LET k == CHOOSE j \in DOMAIN text :
                     text[j] = "\n" /\ \A h \in 1..(j - 1) : text[h] # "\n"
         IN <<SubSeq(text, 1, k - 1)>> \o SplitLines(SubSeq(text, k + 1, Len(text)))

\* how many entries of s equal x
Count(s, x) == Cardinality({k \in DOMAIN s : s[k] = x})

\* C10, as claimed: the text generate_d2_code returns holds exactly one
\* relation line "source -> target" for each edge of the graph.
C10_EachEdgeRenderedOnce ==
    ret.op = "generate_d2_code" =>
        \A i \in DOMAIN graph : \A d \in Elems(graph[i].deps) :
            Count(SplitLines(ret.value), RelationLine(graph[i].pkg, d)) = 1

\* C11: in a run of main(), when the fetch of the root's direct dependencies
\* fails the run ends with exit code 1 and build_graph is never called: no
\* graph is built, nothing is fetched for it, nothing is reported or rendered.
\* Exit code 1 has no other cause, and no exception leaves build_graph: when
\* the fetch of another package fails during the build, that package's entry
\* is the empty list and the run goes on, through the report of the cycles and
\* the D2 description, to the return of main.
C11_OnlyRootFetchFailureAborts ==
    /\ [](source[root].raises # "none" =>
             /\ pc \in {"main", "exit1"}
             /\ built = <<>> /\ graph = <<>> /\ stack = <<>> /\ ret = NoRet
             /\ \A p \in Packages : fetches[p] = 0)
    /\ [](pc = "exit1" => source[root].raises # "none")
    /\ [](pc # "raised")
    /\ [](\A p \in Packages :
             (fetches[p] >= 1 /\ source[p].raises # "none" /\ stack = <<>>) =>
                 /\ p # root
                 /\ p \in DictKeys(graph)
                 /\ DictGet(graph, p) = <<>>)
    /\ [](pc = "exit0" => built = <<graph>> /\ ret.op = "generate_d2_code")
    /\ (pc = "idle") ~> (pc = "exit0")

\* a run has returned from main after a build in which the fetch of a package
\* other than the root failed
C11_Witness ==
    /\ pc = "exit0"
    /\ ret.op = "generate_d2_code"
    /\ \E p \in Packages \ {root} :
          /\ fetches[p] = 1
          /\ source[p].raises # "none"
          /\ DictGet(graph, p) = <<>>
          /\ p \in Elems(DictGet(graph, root))

\* a run has ended with exit code 1 at the fetch of the root package
C11_WitnessRoot == pc = "exit1" /\ source[root].raises # "none" /\ built = <<>>

====
